---- MODULE Spec2Model ----
(***************************************************************************)
(* Model of cloud_recording_service/cloud_recording_utils.go: the file     *)
(* list decoder ServerResponse.UnmarshalFileList and its two helpers,      *)
(* extractJSONArray and looksLikeFalseLiteral.                             *)
(*                                                                         *)
(* A text is a sequence of one-character strings.  Positions i, start are  *)
(* Go's 0-based byte offsets; input[i] in Go is input[i + 1] here.         *)
(***************************************************************************)
EXTENDS Integers, Sequences, FiniteSets, TLC

VARIABLES
    input,          \* argument of extractJSONArray / looksLikeFalseLiteral
    pc,             \* position of the running call
    start,          \* extractJSONArray: offset of the first '['
    i,              \* extractJSONArray: loop index
    depth,          \* extractJSONArray: bracket nesting depth
    inString,       \* extractJSONArray: inside a string literal
    escaped,        \* extractJSONArray: previous byte was an unconsumed backslash
    exOut,          \* extractJSONArray: returned (string, bool)
    llOut,          \* looksLikeFalseLiteral: returned bool
    FileListMode,   \* sr.FileListMode (*string), Absent when nil
    FileList,       \* sr.FileList (*json.RawMessage), Absent when nil
    out             \* UnmarshalFileList: returned (value, error) and the calls made

vars == <<input, pc, start, i, depth, inString, escaped, exOut, llOut,
          FileListMode, FileList, out>>

(***************************************************************************)
(* Bounds of the checked input spaces.                                     *)
(***************************************************************************)
MaxLen == 6         \* longest text handed to extractJSONArray in one call
MaxScanLen == 5     \* longest text scanned step by step
MaxRunes == 5       \* most fragments in a text handed to looksLikeFalseLiteral
MaxFrags == 4       \* most fragments in a decoded file-list text

Nil == <<>>            \* a nil pointer
Ptr(v) == <<v>>        \* a pointer to v
Deref(p) == p[1]
None == "<none>"

RECURSIVE Flatten(_)
Flatten(ss) == IF ss = <<>> THEN <<>> ELSE Head(ss) \o Flatten(Tail(ss))

(***************************************************************************)
(* strings.Index, strings.HasPrefix, strings.HasSuffix, strings.TrimSpace  *)
(***************************************************************************)
Index(s, ch) ==
    IF \E k \in 1..Len(s) : s[k] = ch
    THEN (CHOOSE k \in 1..Len(s) : s[k] = ch /\ \A j \in 1..(k - 1) : s[j] # ch) - 1
    ELSE -1

HasPrefix(s, p) == Len(s) >= Len(p) /\ SubSeq(s, 1, Len(p)) = p

HasSuffix(s, p) == Len(s) >= Len(p) /\ SubSeq(s, Len(s) - Len(p) + 1, Len(s)) = p

IsSpace(ch) == ch = " "

TrimSpace(s) ==
    IF \A k \in 1..Len(s) : IsSpace(s[k]) THEN <<>>
    ELSE LET lo == CHOOSE k \in 1..Len(s) : ~IsSpace(s[k]) /\ \A j \in 1..(k - 1) : IsSpace(s[j])
             hi == CHOOSE k \in 1..Len(s) : ~IsSpace(s[k]) /\ \A j \in (k + 1)..Len(s) : IsSpace(s[j])
         IN  SubSeq(s, lo, hi)

(***************************************************************************)
(* extractJSONArray                                                        *)
(***************************************************************************)
ScanInit == [depth |-> 0, inString |-> FALSE, escaped |-> FALSE, ret |-> FALSE]


\* Faulty variant: a backslash inside a string literal escapes nothing.
ScanStep_NoEscape(ch, st) ==
    IF st.inString
    THEN IF ch = "\"" THEN [st EXCEPT !.inString = FALSE] ELSE st
    ELSE IF ch = "\"" THEN [st EXCEPT !.inString = TRUE]
         ELSE IF ch = "[" THEN [st EXCEPT !.depth = @ + 1]
         ELSE IF ch = "]" THEN [st EXCEPT !.depth = @ - 1, !.ret = (st.depth - 1 = 0)]
         ELSE st

\* Faulty variant: brackets are counted inside string literals too.
ScanStep_NoStrings(ch, st) ==
    IF ch = "[" THEN [st EXCEPT !.depth = @ + 1]
    ELSE IF ch = "]" THEN [st EXCEPT !.depth = @ - 1, !.ret = (st.depth - 1 = 0)]
    ELSE st

\* Faulty variant: the depth is tested for zero before it is decremented.
ScanStep_LateReturn(ch, st) ==
    IF st.inString
    THEN IF st.escaped THEN [st EXCEPT !.escaped = FALSE]
         ELSE IF ch = "\\" THEN [st EXCEPT !.escaped = TRUE]
         ELSE IF ch = "\"" THEN [st EXCEPT !.inString = FALSE]
         ELSE st
    ELSE IF ch = "\"" THEN [st EXCEPT !.inString = TRUE]
         ELSE IF ch = "[" THEN [st EXCEPT !.depth = @ + 1]
         ELSE IF ch = "]" THEN [st EXCEPT !.depth = @ - 1, !.ret = (st.depth = 0)]
         ELSE st

\* One iteration of the for loop body on byte ch; ret is set when the body returns.
ScanStep(ch, st) ==
    IF st.inString
    THEN IF st.escaped THEN [st EXCEPT !.escaped = FALSE]
         ELSE IF ch = "\\" THEN [st EXCEPT !.escaped = TRUE]
         ELSE IF ch = "\"" THEN [st EXCEPT !.inString = FALSE]
         ELSE st
    ELSE IF ch = "\"" THEN [st EXCEPT !.inString = TRUE]
         ELSE IF ch = "[" THEN [st EXCEPT !.depth = @ + 1]
         ELSE IF ch = "]" THEN [st EXCEPT !.depth = @ - 1, !.ret = (st.depth - 1 = 0)]
         ELSE st

NotFound == [sub |-> <<>>, ok |-> FALSE]

RECURSIVE ScanFrom(_, _, _, _)
ScanFrom(s, st0, k, st) ==
    IF ~(k < Len(s)) THEN NotFound
    ELSE LET nx == ScanStep(s[k + 1], st)
         IN  IF nx.ret THEN [sub |-> SubSeq(s, st0 + 1, k + 1), ok |-> TRUE]
             ELSE ScanFrom(s, st0, k + 1, nx)

extractJSONArray(s) ==
    LET st0 == Index(s, "[")
    IN  IF st0 = -1 THEN NotFound ELSE ScanFrom(s, st0, st0, ScanInit)

(***************************************************************************)
(* looksLikeFalseLiteral                                                   *)
(***************************************************************************)
Letters == {"f", "a", "l", "s", "e", "n", "u", "t", "r", "x", "F", "A"}
Digits == {"1", "4"}

IsLetter(r) == r \in Letters        \* unicode.IsLetter
IsDigit(r) == r \in Digits          \* unicode.IsDigit

ToLower(r) ==                       \* unicode.ToLower
    CASE r = "F" -> "f"
      [] r = "A" -> "a"
      [] OTHER -> r


\* Faulty variant: the letters are kept in their case.
RECURSIVE LettersOnly_NoFold(_)
LettersOnly_NoFold(s) ==
    IF s = <<>> THEN <<>>
    ELSE IF IsLetter(Head(s)) THEN <<Head(s)>> \o LettersOnly_NoFold(Tail(s))
    ELSE LettersOnly_NoFold(Tail(s))

\* The range loop: letters are appended lowercased, digits and all else skipped.
RECURSIVE LettersOnly(_)
LettersOnly(s) ==
    IF s = <<>> THEN <<>>
    ELSE IF IsLetter(Head(s)) THEN <<ToLower(Head(s))>> \o LettersOnly(Tail(s))
    ELSE IF IsDigit(Head(s)) THEN LettersOnly(Tail(s))
    ELSE LettersOnly(Tail(s))


\* Faulty variant: the shape rule asks for five letters, "f", any letter, "lse".
looksLikeFalseLiteral_FiveLetters(s) ==
    LET normalized == LettersOnly(s)
    IN  IF normalized = <<"f", "a", "l", "s", "e">> THEN TRUE
        ELSE IF Len(normalized) = 4 /\ HasPrefix(normalized, <<"f">>)
                   /\ HasSuffix(normalized, <<"l", "s", "e">>) THEN TRUE
        ELSE IF Len(normalized) = 5 /\ HasPrefix(normalized, <<"f">>)
                   /\ HasSuffix(normalized, <<"l", "s", "e">>) THEN TRUE
        ELSE FALSE

looksLikeFalseLiteral(s) ==
    LET normalized == LettersOnly(s)
    IN  IF normalized = <<"f", "a", "l", "s", "e">> THEN TRUE
        ELSE IF Len(normalized) = 4 /\ HasPrefix(normalized, <<"f">>)
                   /\ HasSuffix(normalized, <<"l", "s", "e">>) THEN TRUE
        ELSE FALSE

(***************************************************************************)
(* encoding/json as UnmarshalFileList uses it: json.Unmarshal first checks *)
(* the whole text for JSON syntax (a syntax error leaves the target        *)
(* untouched) and then stores the value into the Go target, reporting the  *)
(* first type mismatch.  Fractions and negative numbers are left out: no   *)
(* checked text contains '.' or '-'.                                       *)
(***************************************************************************)
NoErr == [kind |-> "nil", msg |-> None, off |-> 0, value |-> None, type |-> None]

SyntaxError(msg, off) ==
    [kind |-> "SyntaxError", msg |-> msg, off |-> off, value |-> None, type |-> None]

UnmarshalTypeError(value, type) ==
    [kind |-> "UnmarshalTypeError", msg |-> None, off |-> 0, value |-> value, type |-> type]

JFail(t, p) ==
    IF p > Len(t)
    THEN [ok |-> FALSE, err |-> SyntaxError("unexpected end of JSON input", Len(t))]
    ELSE [ok |-> FALSE, err |-> SyntaxError("invalid character", p)]

JOk(next, kind, elems, str) ==
    [ok |-> TRUE, next |-> next, kind |-> kind, elems |-> elems, str |-> str]

RECURSIVE SkipWS(_, _)
SkipWS(t, p) == IF p <= Len(t) /\ IsSpace(t[p]) THEN SkipWS(t, p + 1) ELSE p

RECURSIVE SkipDigits(_, _)
SkipDigits(t, p) == IF p <= Len(t) /\ IsDigit(t[p]) THEN SkipDigits(t, p + 1) ELSE p

HexDigits == Digits \cup {"a", "e", "f", "A", "F"}
SimpleEscapes == {"\"", "\\", "/", "b", "f", "n", "r", "t"}

Unescape(e) == IF e \in {"\"", "\\", "/"} THEN e ELSE "<ctl>"

\* The rest of a string literal from position p on; acc is the decoded content so far.
RECURSIVE JStringRest(_, _, _)
JStringRest(t, p, acc) ==
    IF p > Len(t) THEN JFail(t, p)
    ELSE IF t[p] = "\"" THEN JOk(p + 1, "string", <<>>, acc)
    ELSE IF t[p] = "\\"
         THEN IF p + 1 > Len(t) THEN JFail(t, p + 1)
              ELSE IF t[p + 1] \in SimpleEscapes
                   THEN JStringRest(t, p + 2, Append(acc, Unescape(t[p + 1])))
              ELSE IF t[p + 1] = "u"
                   THEN IF \E k \in (p + 2)..(p + 5) : k > Len(t) \/ t[k] \notin HexDigits
                        THEN JFail(t, CHOOSE k \in (p + 2)..(p + 5) :
                                        /\ k > Len(t) \/ t[k] \notin HexDigits
                                        /\ \A j \in (p + 2)..(k - 1) : t[j] \in HexDigits)
                        ELSE JStringRest(t, p + 6, Append(acc, "<rune>"))
              ELSE JFail(t, p + 1)
    ELSE JStringRest(t, p + 1, Append(acc, t[p]))

\* The rest of a literal (true, false, null) whose first byte was at p - 1.
RECURSIVE JLiteralRest(_, _, _, _)
JLiteralRest(t, p, rest, kind) ==
    IF rest = <<>> THEN JOk(p, kind, <<>>, <<>>)
    ELSE IF p <= Len(t) /\ t[p] = Head(rest) THEN JLiteralRest(t, p + 1, Tail(rest), kind)
    ELSE JFail(t, p)

JNumber(t, p) ==
    LET q == SkipDigits(t, p)
    IN  IF q <= Len(t) /\ t[q] \in {"e", "E"}
        THEN IF SkipDigits(t, q + 1) > q + 1
             THEN JOk(SkipDigits(t, q + 1), "number", <<>>, <<>>)
             ELSE JFail(t, q + 1)
        ELSE JOk(q, "number", <<>>, <<>>)

RECURSIVE JValue(_, _), JElems(_, _, _), JMembers(_, _)

\* A JSON value that starts at position p (white space already skipped).
JValue(t, p) ==
    IF p > Len(t) THEN JFail(t, p)
    ELSE IF t[p] = "[" THEN
        LET q == SkipWS(t, p + 1)
        IN  IF q <= Len(t) /\ t[q] = "]" THEN JOk(q + 1, "array", <<>>, <<>>)
            ELSE JElems(t, q, <<>>)
    ELSE IF t[p] = "{" THEN
        LET q == SkipWS(t, p + 1)
        IN  IF q <= Len(t) /\ t[q] = "}" THEN JOk(q + 1, "object", <<>>, <<>>)
            ELSE JMembers(t, q)
    ELSE IF t[p] = "\"" THEN JStringRest(t, p + 1, <<>>)
    ELSE IF IsDigit(t[p]) THEN JNumber(t, p)
    ELSE IF t[p] = "f" THEN JLiteralRest(t, p + 1, <<"a", "l", "s", "e">>, "bool")
    ELSE IF t[p] = "t" THEN JLiteralRest(t, p + 1, <<"r", "u", "e">>, "bool")
    ELSE IF t[p] = "n" THEN JLiteralRest(t, p + 1, <<"u", "l", "l">>, "null")
    ELSE JFail(t, p)

\* Array elements from position p on; acc holds the kinds of the elements read.
JElems(t, p, acc) ==
    LET v == JValue(t, p)
    IN  IF ~v.ok THEN v
        ELSE LET q == SkipWS(t, v.next)
             IN  IF q > Len(t) THEN JFail(t, q)
                 ELSE IF t[q] = "," THEN JElems(t, SkipWS(t, q + 1), Append(acc, v.kind))
                 ELSE IF t[q] = "]" THEN JOk(q + 1, "array", Append(acc, v.kind), <<>>)
                 ELSE JFail(t, q)

\* Object members from position p on: "key" : value, separated by commas.
JMembers(t, p) ==
    IF p > Len(t) \/ t[p] # "\"" THEN JFail(t, p)
    ELSE LET k == JStringRest(t, p + 1, <<>>)
         IN  IF ~k.ok THEN k
             ELSE LET c == SkipWS(t, k.next)
                  IN  IF c > Len(t) \/ t[c] # ":" THEN JFail(t, c)
                      ELSE LET v == JValue(t, SkipWS(t, c + 1))
                           IN  IF ~v.ok THEN v
                               ELSE LET q == SkipWS(t, v.next)
                                    IN  IF q > Len(t) THEN JFail(t, q)
                                        ELSE IF t[q] = "," THEN JMembers(t, SkipWS(t, q + 1))
                                        ELSE IF t[q] = "}" THEN JOk(q + 1, "object", <<>>, <<>>)
                                        ELSE JFail(t, q)

\* checkValid: one JSON value, white space around it, nothing after it.
JSONScan(t) ==
    LET v == JValue(t, SkipWS(t, 1))
    IN  IF ~v.ok THEN v
        ELSE IF SkipWS(t, v.next) <= Len(t) THEN JFail(t, SkipWS(t, v.next))
        ELSE v

\* json.Unmarshal(data, &rawString) with rawString a Go string ("" before the
\* call); v is the outcome of the syntax check.  A string is unquoted, null
\* leaves the target as it is without an error, any other value is a mismatch.
StoreString(v) ==
    IF ~v.ok THEN [err |-> v.err, val |-> <<>>]
    ELSE IF v.kind = "string" THEN [err |-> NoErr, val |-> v.str]
    ELSE IF v.kind = "null" THEN [err |-> NoErr, val |-> <<>>]
    ELSE [err |-> UnmarshalTypeError(v.kind, "string"), val |-> <<>>]

UnmarshalString(data) == StoreString(JSONScan(data))

\* reflect type names of the slices and of the nil interface value
SliceOf(elemType) == IF elemType = "FileDetail" THEN "[]FileDetail" ELSE "[]FileListEntry"

NilSlice(elemType) == [type |-> SliceOf(elemType), nil |-> TRUE, elems |-> <<>>]
Slice(elemType, elems) == [type |-> SliceOf(elemType), nil |-> FALSE, elems |-> elems]
NilValue == [type |-> "nil", nil |-> TRUE, elems |-> <<>>]

\* json.Unmarshal(data, &fileList) with fileList a slice of the struct type
\* elemType; v is the outcome of the syntax check.  An object or null decodes
\* into a struct element, any other element kind is a type mismatch; null for
\* the whole value leaves the slice nil without an error.
StoreSlice(v, elemType) ==
    LET Bad(k) == v.elems[k] \notin {"object", "null"}
    IN  IF ~v.ok THEN [err |-> v.err, val |-> NilSlice(elemType)]
        ELSE IF v.kind = "null" THEN [err |-> NoErr, val |-> NilSlice(elemType)]
        ELSE IF v.kind # "array"
             THEN [err |-> UnmarshalTypeError(v.kind, SliceOf(elemType)), val |-> NilSlice(elemType)]
        ELSE IF \E k \in 1..Len(v.elems) : Bad(k)
             THEN [err |-> UnmarshalTypeError(
                              v.elems[CHOOSE k \in 1..Len(v.elems) :
                                          Bad(k) /\ \A j \in 1..(k - 1) : ~Bad(j)],
                              elemType),
                   val |-> Slice(elemType, [k \in 1..Len(v.elems) |-> elemType])]
        ELSE [err |-> NoErr, val |-> Slice(elemType, [k \in 1..Len(v.elems) |-> elemType])]

UnmarshalSlice(data, elemType) == StoreSlice(JSONScan(data), elemType)

(***************************************************************************)
(* ServerResponse.UnmarshalFileList.  The errors are fmt.Errorf values,    *)
(* named here by the kind their message states; cause is the error the    *)
(* message embeds with %v and detail the mode value it embeds with %s.     *)
(* calls lists, in order, the helper calls the decoder made.               *)
(***************************************************************************)
Errorf(kind, cause, detail) == [kind |-> kind, cause |-> cause, detail |-> detail]
NilError == Errorf("nil", NoErr, None)

Return(val, err, calls) == [val |-> val, err |-> err, calls |-> calls]


\* Faulty variant: any failed recovery gives the empty list, recognizer or not.
RecoveryOutcome_EmptyOnFailure(c, p2, isFalse, err) ==
    LET tried == IF c.ok THEN <<"extractJSONArray", "Unmarshal(candidate)">>
                 ELSE <<"extractJSONArray">>
    IN  IF c.ok /\ p2.err = NoErr
        THEN Return(p2.val, NilError, tried)
        ELSE Return(Slice("FileDetail", <<>>), NilError, Append(tried, "looksLikeFalseLiteral"))

\* Faulty variant: the recognizer is consulted before the extractor.
RecoveryOutcome_RecognizerFirst(c, p2, isFalse, err) ==
    LET tried == IF c.ok THEN <<"extractJSONArray", "Unmarshal(candidate)">>
                 ELSE <<"extractJSONArray">>
    IN  IF isFalse
        THEN Return(Slice("FileDetail", <<>>), NilError, <<"looksLikeFalseLiteral">>)
        ELSE IF c.ok /\ p2.err = NoErr
        THEN Return(p2.val, NilError, <<"looksLikeFalseLiteral">> \o tried)
        ELSE Return(NilValue, Errorf("UnparsableFileListError", err, None),
                    <<"looksLikeFalseLiteral">> \o tried)

\* Lines 71-83: the outcome of the recovery, given the extractor's result c, the
\* parse p2 of its candidate (made only when c.ok), the recognizer's verdict
\* isFalse on the trimmed text (asked only when the candidate gave nothing) and
\* the error err of the primary parse.
RecoveryOutcome(c, p2, isFalse, err) ==
    LET tried == IF c.ok THEN <<"extractJSONArray", "Unmarshal(candidate)">>
                 ELSE <<"extractJSONArray">>
    IN  IF c.ok /\ p2.err = NoErr
        THEN Return(p2.val, NilError, tried)
        ELSE IF isFalse
        THEN Return(Slice("FileDetail", <<>>), NilError, Append(tried, "looksLikeFalseLiteral"))
        ELSE Return(NilValue, Errorf("UnparsableFileListError", err, None),
                    Append(tried, "looksLikeFalseLiteral"))

RecoverCandidate(c, trimmed, err) ==
    RecoveryOutcome(c, UnmarshalSlice(c.sub, "FileDetail"), looksLikeFalseLiteral(trimmed), err)

\* Lines 69-83: the recovery after the parse of trimmed failed with err.
RecoverFileList(trimmed, err) == RecoverCandidate(extractJSONArray(trimmed), trimmed, err)

\* Faulty variant: the error of the unwrapping is dropped and decoding goes on.
StringOutcome_IgnoringUnwrapError(u, p1, r) ==
    IF p1.err # NoErr
    THEN Return(r.val, r.err, <<"Unmarshal(string)", "Unmarshal(trimmed)">> \o r.calls)
    ELSE Return(p1.val, NilError, <<"Unmarshal(string)", "Unmarshal(trimmed)">>)

\* Lines 63-85: the outcome of case "string", given the unwrapping u, the primary
\* parse p1 of the trimmed text and the recovery r (run only when p1 failed).
StringOutcome(u, p1, r) ==
    IF u.err # NoErr
    THEN Return(NilValue, Errorf("MalformedEncodingError", u.err, None), <<"Unmarshal(string)">>)
    ELSE IF p1.err # NoErr
    THEN Return(r.val, r.err, <<"Unmarshal(string)", "Unmarshal(trimmed)">> \o r.calls)
    ELSE Return(p1.val, NilError, <<"Unmarshal(string)", "Unmarshal(trimmed)">>)

StringParsed(u, trimmed, p1) == StringOutcome(u, p1, RecoverFileList(trimmed, p1.err))

StringTrimmed(u, trimmed) == StringParsed(u, trimmed, UnmarshalSlice(trimmed, "FileDetail"))

StringUnwrapped(u) == StringTrimmed(u, TrimSpace(u.val))

\* Lines 59-85: case "string".
StringMode(payload) == StringUnwrapped(UnmarshalString(payload))

\* Faulty variant: mode "json" runs the recovery of mode "string" on a failure.
JsonOutcome_Recovering(payload, p1) ==
    IF p1.err # NoErr
    THEN Return(RecoverFileList(payload, p1.err).val, RecoverFileList(payload, p1.err).err,
                <<"Unmarshal(payload)">> \o RecoverFileList(payload, p1.err).calls)
    ELSE Return(p1.val, NilError, <<"Unmarshal(payload)">>)

\* Lines 89-92: the outcome of case "json", given the parse p1 of the payload.
JsonOutcome(payload, p1) ==
    IF p1.err # NoErr
    THEN Return(NilValue, Errorf("UnparsableFileListError", p1.err, None), <<"Unmarshal(payload)">>)
    ELSE Return(p1.val, NilError, <<"Unmarshal(payload)">>)

\* Lines 86-92: case "json".
JsonMode(payload) == JsonOutcome(payload, UnmarshalSlice(payload, "FileListEntry"))

\* Faulty variant: the mode is examined before FileList is tested for nil.
UnmarshalFileList_ModeFirst(mode, fileList) ==
    IF mode = Nil
    THEN Return(NilValue, Errorf("MissingInputError", NoErr, None), <<>>)
    ELSE IF Deref(mode) \notin {"string", "json"}
    THEN Return(NilValue, Errorf("UnrecognizedModeError", NoErr, Deref(mode)), <<>>)
    ELSE IF fileList = Nil
    THEN Return(NilValue, Errorf("MissingInputError", NoErr, None), <<>>)
    ELSE IF Deref(mode) = "string" THEN StringMode(Deref(fileList))
    ELSE JsonMode(Deref(fileList))

\* Lines 53-58 and the switch of lines 58-96.
UnmarshalFileList(mode, fileList) ==
    IF mode = Nil \/ fileList = Nil
    THEN Return(NilValue, Errorf("MissingInputError", NoErr, None), <<>>)
    ELSE IF Deref(mode) = "string" THEN StringMode(Deref(fileList))
    ELSE IF Deref(mode) = "json" THEN JsonMode(Deref(fileList))
    ELSE Return(NilValue, Errorf("UnrecognizedModeError", NoErr, Deref(mode)), <<>>)

NoOut == Return(NilValue, NilError, <<>>)

(***************************************************************************)
(* Input spaces.                                                           *)
(***************************************************************************)
ExAlphabet == {"[", "]", "\"", "\\", "x"}

\* Recognizer texts are concatenations of these fragments.
RecogFrags == {<<"f">>, <<"a">>, <<"l">>, <<"s">>, <<"e">>, <<"F">>, <<"A">>, <<"x">>,
               <<"4">>, <<"-">>, <<"t", "r", "u", "e">>}

\* File-list texts are concatenations of these fragments.
Frags == {<<"[">>, <<"]">>, <<"{", "}">>, <<",">>, <<"\"", "]", "\"">>, <<"1">>,
          <<"f", "a", "l", "s", "e">>, <<"n", "u", "l", "l">>, <<" ">>}

\* The JSON string literal that encodes text t (what the recording service sends
\* in mode "string"): quotes and backslashes escaped, the whole in quotes.
RECURSIVE EscapeText(_)
EscapeText(t) ==
    IF t = <<>> THEN <<>>
    ELSE IF Head(t) \in {"\"", "\\"} THEN <<"\\", Head(t)>> \o EscapeText(Tail(t))
    ELSE <<Head(t)>> \o EscapeText(Tail(t))

Quote(t) == <<"\"">> \o EscapeText(t) \o <<"\"">>

Modes == {Nil, Ptr("string"), Ptr("json"), Ptr("xml")}

\* A payload is absent, the bare text, or the text encoded as a JSON string.
PayloadsOf(t) == {Nil, Ptr(t), Ptr(Quote(t))}

(***************************************************************************)
(* Specifications.                                                         *)
(***************************************************************************)
Idle ==
    /\ start = 0 /\ i = 0 /\ depth = 0 /\ inString = FALSE /\ escaped = FALSE
    /\ exOut = NotFound /\ llOut = FALSE /\ out = NoOut

\* extractJSONArray called once on a text.
InitExtract ==
    /\ \E n \in 0..MaxLen : input \in [1..n -> ExAlphabet]
    /\ FileListMode = Nil /\ FileList = Nil
    /\ pc = "call" /\ Idle

Extract ==
    /\ pc = "call"
    /\ exOut' = extractJSONArray(input)
    /\ pc' = "done"
    /\ UNCHANGED <<input, start, i, depth, inString, escaped, llOut, FileListMode, FileList, out>>

NextExtract == Extract

SpecExtract == InitExtract /\ [][NextExtract]_vars

\* extractJSONArray run one loop iteration at a time.
InitScan ==
    /\ \E n \in 0..MaxScanLen : input \in [1..n -> ExAlphabet]
    /\ FileListMode = Nil /\ FileList = Nil
    /\ pc = "index" /\ Idle

\* Lines 100-107.
ScanBegin ==
    /\ pc = "index"
    /\ IF Index(input, "[") = -1
       THEN /\ exOut' = NotFound /\ pc' = "done"
            /\ UNCHANGED <<start, i, depth, inString, escaped>>
       ELSE /\ start' = Index(input, "[") /\ i' = Index(input, "[")
            /\ depth' = 0 /\ inString' = FALSE /\ escaped' = FALSE
            /\ pc' = "loop"
            /\ UNCHANGED exOut
    /\ UNCHANGED <<input, llOut, FileListMode, FileList, out>>

\* Lines 109-137: one iteration of the loop.
ScanIter ==
    /\ pc = "loop" /\ i < Len(input)
    /\ LET nx == ScanStep(input[i + 1],
                          [depth |-> depth, inString |-> inString,
                           escaped |-> escaped, ret |-> FALSE])
       IN  /\ depth' = nx.depth /\ inString' = nx.inString /\ escaped' = nx.escaped
           /\ IF nx.ret
              THEN /\ exOut' = [sub |-> SubSeq(input, start + 1, i + 1), ok |-> TRUE]
                   /\ pc' = "done" /\ UNCHANGED i
              ELSE /\ i' = i + 1 /\ UNCHANGED <<exOut, pc>>
    /\ UNCHANGED <<input, start, llOut, FileListMode, FileList, out>>

\* Line 139: the loop ran off the end of the input.
ScanExhaust ==
    /\ pc = "loop" /\ ~(i < Len(input))
    /\ exOut' = NotFound /\ pc' = "done"
    /\ UNCHANGED <<input, start, i, depth, inString, escaped, llOut, FileListMode, FileList, out>>

NextScan == ScanBegin \/ ScanIter \/ ScanExhaust

SpecScan == InitScan /\ [][NextScan]_vars

\* The call is a sequential computation: a step that can be taken is taken.
FairSpecScan == SpecScan /\ WF_vars(NextScan)

\* looksLikeFalseLiteral called once on a text.
InitRecog ==
    /\ \E n \in 0..MaxRunes : \E fs \in [1..n -> RecogFrags] : input = Flatten(fs)
    /\ FileListMode = Nil /\ FileList = Nil
    /\ pc = "call" /\ Idle

Recognize ==
    /\ pc = "call"
    /\ llOut' = looksLikeFalseLiteral(input)
    /\ pc' = "done"
    /\ UNCHANGED <<input, start, i, depth, inString, escaped, exOut, FileListMode, FileList, out>>

NextRecog == Recognize

SpecRecog == InitRecog /\ [][NextRecog]_vars

\* UnmarshalFileList called once on a ServerResponse.
Init ==
    /\ FileListMode \in Modes
    /\ \E n \in 0..MaxFrags : \E fs \in [1..n -> Frags] : FileList \in PayloadsOf(Flatten(fs))
    /\ input = <<>>
    /\ pc = "call" /\ Idle

Decode ==
    /\ pc = "call"
    /\ out' = UnmarshalFileList(FileListMode, FileList)
    /\ pc' = "done"
    /\ UNCHANGED <<input, start, i, depth, inString, escaped, exOut, llOut, FileListMode, FileList>>

Next == Decode

Spec == Init /\ [][Next]_vars

(***************************************************************************)
(* Reference definitions the properties are stated with.                   *)
(***************************************************************************)
\* Position (1-based) of the first '[' of s, 0 when there is none.
FirstOpen(s) ==
    IF \E k \in 1..Len(s) : s[k] = "["
    THEN CHOOSE k \in 1..Len(s) : s[k] = "[" /\ \A j \in 1..(k - 1) : s[j] # "["
    ELSE 0

\* Reading s from position f on, is the character at position k outside every
\* double-quoted string literal?  (A backslash inside a literal escapes the next
\* character; the quotes that open and close a literal are not brackets anyway.)
Unquoted(s, f, k) ==
    LET lex[j \in f..k] ==
            IF j = f THEN "out"
            ELSE IF lex[j - 1] = "out" THEN (IF s[j - 1] = "\"" THEN "in" ELSE "out")
            ELSE IF lex[j - 1] = "esc" THEN "in"
            ELSE IF s[j - 1] = "\\" THEN "esc"
            ELSE IF s[j - 1] = "\"" THEN "out"
            ELSE "in"
    IN  lex[k] = "out"

\* Count of '[' minus count of ']' outside string literals in positions f..k.
Balance(s, f, k) ==
    Cardinality({j \in f..k : s[j] = "[" /\ Unquoted(s, f, j)})
      - Cardinality({j \in f..k : s[j] = "]" /\ Unquoted(s, f, j)})

Closes(s) == {k \in FirstOpen(s)..Len(s) : Balance(s, FirstOpen(s), k) = 0}

Least(S) == CHOOSE k \in S : \A j \in S : k <= j

\* E is the encoding of a well-formed JSON array.
IsArrayEncoding(E) ==
    /\ E # <<>> /\ E[1] = "[" /\ E[Len(E)] = "]"
    /\ JSONScan(E).ok /\ JSONScan(E).kind = "array"

\* The letters of s, lowercased, everything else discarded.
LetterSkeleton(s) ==
    LET sel == SelectSeq(s, IsLetter)
    IN  [k \in 1..Len(sel) |-> ToLower(sel[k])]

FalseWord == <<"f", "a", "l", "s", "e">>

FalseLike(s) ==
    LET L == LetterSkeleton(s)
    IN  \/ L = FalseWord
        \/ Len(L) = 4 /\ L[1] = "f" /\ SubSeq(L, 2, 4) = <<"l", "s", "e">>

\* s is "false" with exactly the interior character at position k replaced by a
\* different letter or by a digit.
ReplacedAt(s, k) ==
    /\ Len(s) = 5 /\ k \in 2..4
    /\ s[k] # FalseWord[k] /\ (IsLetter(s[k]) \/ IsDigit(s[k]))
    /\ \A j \in (1..5) \ {k} : s[j] = FalseWord[j]

OneInteriorReplaced(s) == \E k \in 2..4 : ReplacedAt(s, k)

(***************************************************************************)
(* Properties of extractJSONArray.                                         *)
(***************************************************************************)
\* C2: extractJSONArray reports found exactly when, from the first '[' on, the
\* count of '[' minus ']' outside string literals returns to zero somewhere, and
\* then returns the text from that '[' through the first such position; with no
\* '[' or with the depth never back at zero it returns ("", false).
ExtractIsFirstBalancedArray ==
    pc = "done" =>
        IF FirstOpen(input) = 0 \/ Closes(input) = {}
        THEN exOut = [sub |-> <<>>, ok |-> FALSE]
        ELSE exOut = [sub |-> SubSeq(input, FirstOpen(input), Least(Closes(input))),
                      ok |-> TRUE]

\* C2 witness: an array found after leading text, with a ']' inside a string literal.
ExtractFoundPastQuotedBracket ==
    /\ pc = "done" /\ exOut.ok
    /\ FirstOpen(input) > 1
    /\ \E k \in FirstOpen(input)..Len(input) :
          /\ k < Least(Closes(input))
          /\ input[k] = "]" /\ ~Unquoted(input, FirstOpen(input), k)

\* C3: when the text starts with the encoding E of a well-formed JSON array,
\* extractJSONArray returns (E, true) whatever follows E.
ExtractIgnoresSuffix ==
    pc = "done" =>
        \A n \in 1..Len(input) :
            IsArrayEncoding(SubSeq(input, 1, n)) =>
                exOut = [sub |-> SubSeq(input, 1, n), ok |-> TRUE]

\* C3 witness: an array with a bracket inside a string value, followed by a
\* suffix that holds a bracket or a quote.
ExtractArrayWithNoisySuffix ==
    /\ pc = "done"
    /\ \E n \in 1..(Len(input) - 1) :
          /\ IsArrayEncoding(SubSeq(input, 1, n))
          /\ \E k \in 1..n : input[k] \in {"[", "]"} /\ ~Unquoted(input, 1, k)
          /\ input[n + 1] \in {"[", "]", "\""}
          /\ exOut.sub = SubSeq(input, 1, n)

\* C10: the scan ends on every input; an iteration that does not return moves
\* the index on by one; the scan ends only by the depth coming back to zero or
\* at the end of the input; while scanning past the first '[' the depth is at
\* least 1, and escaped is set only inside a string literal.
ScanInv ==
    /\ (pc = "loop" /\ i > start) => depth >= 1
    /\ depth >= 0
    /\ escaped => inString
    /\ i <= Len(input)

ScanAdvance ==
    /\ (pc = "loop" /\ pc' = "loop") => i' = i + 1
    /\ (pc = "loop" /\ pc' = "done") =>
          \/ depth' = 0 /\ exOut'.ok
          \/ i = Len(input) /\ ~exOut'.ok /\ depth' = depth

ScanTerminates == <>(pc = "done") /\ []ScanInv /\ [][ScanAdvance]_vars

\* C10 witness: scanning inside a string literal of a nested array, an escape pending.
ScanEscapePendingInNestedString ==
    pc = "loop" /\ depth = 2 /\ inString /\ escaped

(***************************************************************************)
(* Properties of looksLikeFalseLiteral.                                    *)
(***************************************************************************)
Txt5(a, b, c, d, e) == <<a, b, c, d, e>>

\* C4: looksLikeFalseLiteral is true exactly when the lowercased letters of the
\* text spell "false", or are four letters that begin with "f" and end with
\* "lse"; "false", "False", "f4lse" are accepted, "true" and "" rejected.
RecognizerMatchesSkeleton ==
    pc = "done" =>
        /\ llOut = FalseLike(input)
        /\ input \in {FalseWord, Txt5("F", "a", "l", "s", "e"),
                      Txt5("f", "4", "l", "s", "e")} => llOut
        /\ input \in {<<>>, <<"t", "r", "u", "e">>} => ~llOut

\* C4 witness: a text with an upper-case letter and a digit is accepted.
RecognizerAcceptsNoisyFalse ==
    /\ pc = "done" /\ llOut
    /\ \E k \in 1..Len(input) : input[k] = "F"
    /\ \E k \in 1..Len(input) : input[k] = "4"

\* C5 as stated: every form of "false" with one interior character replaced by
\* a different letter or a digit is accepted.
RecognizerAcceptsEveryInteriorReplacement ==
    (pc = "done" /\ OneInteriorReplaced(input)) => llOut

\* C5 amended: such a form is accepted exactly when the 'a' is replaced by a
\* digit or the replacement is the upper case of the letter it replaces; any
\* other letter, and a digit in place of 'l' or 's', is rejected.
RecognizerAcceptsOnlyDroppedA ==
    pc = "done" =>
        \A k \in 2..4 :
            ReplacedAt(input, k) =>
                (llOut <=> \/ k = 2 /\ IsDigit(input[k])
                           \/ ToLower(input[k]) = FalseWord[k])

\* C5 witness: "false" with the 'a' replaced by a digit, accepted.
RecognizerAcceptsDigitForA ==
    pc = "done" /\ ReplacedAt(input, 2) /\ IsDigit(input[2]) /\ llOut

(***************************************************************************)
(* Properties of UnmarshalFileList.                                        *)
(***************************************************************************)
Called(mode) == pc = "done" /\ FileListMode = Ptr(mode) /\ FileList # Nil

\* What the stages of mode "string" yield on the current payload.
Unwrapped == UnmarshalString(Deref(FileList))
Trimmed == TrimSpace(Unwrapped.val)
Primary == UnmarshalSlice(Trimmed, "FileDetail")
Candidate == extractJSONArray(Trimmed)
CandidateParse == UnmarshalSlice(Candidate.sub, "FileDetail")

PrimaryFailed == Called("string") /\ Unwrapped.err = NoErr /\ Primary.err # NoErr
CandidateParsed == Candidate.ok /\ CandidateParse.err = NoErr

ReturnedEmptyFileDetails ==
    /\ Called("string")
    /\ out.err = NilError /\ out.val.type = "[]FileDetail" /\ out.val.elems = <<>>

\* C1 as stated: an empty FileDetail list is returned only when every array
\* parse of the trimmed text failed and the text looks like "false".
EmptyListOnlyFromFalseLiteral ==
    ReturnedEmptyFileDetails =>
        /\ Primary.err # NoErr
        /\ ~CandidateParsed
        /\ FalseLike(Trimmed)

\* C1 amended: an empty FileDetail list is returned only when an array parse
\* (of the trimmed text or of the extracted candidate) succeeded and decoded no
\* element, or when every array parse failed and the text looks like "false".
EmptyListOnlyFromEmptyArrayOrFalseLiteral ==
    ReturnedEmptyFileDetails =>
        \/ Primary.err = NoErr /\ Primary.val.elems = <<>>
        \/ Primary.err # NoErr /\ CandidateParsed /\ CandidateParse.val.elems = <<>>
        \/ Primary.err # NoErr /\ ~CandidateParsed /\ FalseLike(Trimmed)

\* C1 witness: a balanced candidate that does not parse, then the recognizer's
\* match gives the empty list.
EmptyListFromRecognizer ==
    /\ ReturnedEmptyFileDetails
    /\ Primary.err # NoErr /\ Candidate.ok /\ CandidateParse.err # NoErr
    /\ FalseLike(Trimmed)

StringCalls == <<"Unmarshal(string)", "Unmarshal(trimmed)">>

\* C6: after the primary parse fails, (a) a candidate that parses is returned and
\* the recognizer is not called; (b) otherwise a recognizer match gives the empty
\* list; (c) otherwise the error is UnparsableFileListError with the primary
\* parse's error as its cause.
RecoveryInStrictOrder ==
    PrimaryFailed =>
        IF CandidateParsed
        THEN /\ out.val = CandidateParse.val /\ out.err = NilError
             /\ out.calls = StringCalls \o <<"extractJSONArray", "Unmarshal(candidate)">>
        ELSE /\ out.calls = StringCalls \o <<"extractJSONArray">>
                              \o (IF Candidate.ok THEN <<"Unmarshal(candidate)">> ELSE <<>>)
                              \o <<"looksLikeFalseLiteral">>
             /\ IF FalseLike(Trimmed)
                THEN out.val = Slice("FileDetail", <<>>) /\ out.err = NilError
                ELSE /\ out.val = NilValue
                     /\ out.err = Errorf("UnparsableFileListError", Primary.err, None)

\* C6 witness: the candidate fails with another error than the primary parse,
\* the recognizer rejects, and the error returned carries the primary one.
RecoveryExhaustedWithTwoErrors ==
    /\ PrimaryFailed /\ Candidate.ok
    /\ CandidateParse.err \notin {NoErr, Primary.err}
    /\ out.err.kind = "UnparsableFileListError"

\* C7: in mode "json" a payload whose parse fails gives UnparsableFileListError
\* with that parse's error; the extractor and the recognizer are not called.
JsonModeNeverRecovers ==
    (Called("json") /\ UnmarshalSlice(Deref(FileList), "FileListEntry").err # NoErr) =>
        /\ out.val = NilValue
        /\ out.err = Errorf("UnparsableFileListError",
                            UnmarshalSlice(Deref(FileList), "FileListEntry").err, None)
        /\ out.calls = <<"Unmarshal(payload)">>

\* C7 witness: the payload is a valid array followed by text that looks like
\* "false": both recoveries would have succeeded.
JsonModeRejectsRecoverable ==
    /\ Called("json") /\ out.err.kind = "UnparsableFileListError"
    /\ extractJSONArray(Deref(FileList)).ok
    /\ UnmarshalSlice(extractJSONArray(Deref(FileList)).sub, "FileListEntry").err = NoErr
    /\ FalseLike(Deref(FileList))

MissingInputFirst ==
    (pc = "done" /\ (FileListMode = Nil \/ FileList = Nil)) =>
        /\ out.val = NilValue
        /\ out.err = Errorf("MissingInputError", NoErr, None)
        /\ out.calls = <<>>

\* C9 witness: FileList nil with an unknown mode.
MissingPayloadWithUnknownMode ==
    /\ pc = "done" /\ FileList = Nil /\ FileListMode = Ptr("xml")
    /\ out.err.kind = "MissingInputError"

====
